---- MODULE Spec2Model ----
(***************************************************************************)
(* Housing Price Prediction API (src/src/main.py): the process-wide        *)
(* model_info slot, its one-time load from the artifact file, and the      *)
(* request handlers /health, /model/info, /predict and /predict/batch.     *)
(*                                                                         *)
(* Handlers are `async def` bodies without any await, so each one runs to  *)
(* completion on the event loop: one action per handler.  Real-valued      *)
(* quantities (surface, prices, rmse) are modelled by integers.  Optional  *)
(* values (Python None, a missing dict key, a missing JSON field) are      *)
(* sequences of length 0 or 1.                                             *)
(***************************************************************************)
EXTENDS Integers, Sequences, FiniteSets, TLC

VARIABLES
    file,        \* the artifact file ../models/housing_model.joblib
    model_info,  \* the module global of main.py: <<>> is None, <<a>> is a loaded object
    __name__,    \* the module's name: "__main__" run as a script, "main" imported by uvicorn
    loads,       \* the calls of load_model() made in this process
    phase,       \* "imported" before the startup event has run, then "serving";
                 \* "supervising" once the script is inside uvicorn.run(reload=True)
    startup_log, \* the last line startup_event logged
    request,     \* the request the last step handled (NoRequest: it handled none)
    response,    \* the response to it
    calls,       \* scaler.transform / model.predict invocations made by that handler
    memo,        \* the first successful /predict answer for ProbeVector, and its time
    clock        \* what datetime.now() returns

vars == <<file, model_info, __name__, loads, phase, startup_log, request, response, calls,
          memo, clock>>

----------------------------------------------------------------------------
(* Bounds of the model *)

MaxPrice == 2        \* leaf values of the regressor range over -MaxNegPrice..MaxPrice
MaxNegPrice == 1
MaxRmse == 2         \* metrics["rmse"] ranges over 0..MaxRmse
MaxShortBatch == 2   \* batches of every composition up to this length
MaxTime == 1         \* the clock datetime.now() reads runs from 0 to MaxTime
F32Max == 1000       \* largest magnitude the regressor's input check accepts

(* Program constants *)

MaxBatch == 100
N_FEATURES == 5

None == <<>>
Some(x) == <<x>>
IsNone(o) == o = <<>>
Get(o) == o[1]

----------------------------------------------------------------------------
(* HousingFeatures: the request schema and its validation *)

FieldNames == <<"surface", "rooms", "age", "location_score", "garage">>
NumericFields == {"surface", "rooms", "age", "location_score"}
Fields == NumericFields \cup {"garage"}

FieldGe == [surface |-> 20, rooms |-> 1, age |-> 0, location_score |-> 1]
FieldLe == [surface |-> 500, rooms |-> 15, age |-> 100, location_score |-> 10]

\* The ranges taken as open (gt/lt for ge/le).
FieldInvalid_Exclusive(raw, f) ==
    \/ IsNone(raw[f])
    \/ /\ f \in NumericFields
       /\ \/ Get(raw[f]) <= FieldGe[f]
          \/ Get(raw[f]) >= FieldLe[f]

\* A raw JSON object: every field is <<>> (missing) or <<value>>.
FieldInvalid(raw, f) ==
    \/ IsNone(raw[f])
    \/ /\ f \in NumericFields
       /\ \/ Get(raw[f]) < FieldGe[f]
          \/ Get(raw[f]) > FieldLe[f]

\* The fields pydantic reports; the handler runs only when there are none.
HousingFeaturesErrors(raw) == {f \in Fields : FieldInvalid(raw, f)}

\* The validated object the handler receives (values are stored as given).
HousingFeatures(raw) ==
    [surface |-> Get(raw.surface), rooms |-> Get(raw.rooms), age |-> Get(raw.age),
     location_score |-> Get(raw.location_score), garage |-> Get(raw.garage)]

----------------------------------------------------------------------------
(* The artifact: what joblib.load returns.  train_model.py writes a dict   *)
(* with a fitted StandardScaler, a fitted RandomForestRegressor, metrics   *)
(* and metadata; main.py accepts whatever object the file holds, so a key  *)
(* may be missing (<<>>) and the fitted objects may be unusable.           *)

Ok(v) == [ok |-> TRUE, val |-> v]
Raise(msg) == [ok |-> FALSE, err |-> msg]

Abs(n) == IF n < 0 THEN -n ELSE n

\* StandardScaler.transform: (x - mean_) / scale_, the quotient 1/scale_ kept
\* as the fraction num/den.  An unfitted scaler raises NotFittedError.
ScalerTransform(scaler, arr) ==
    IF ~scaler.fitted
    THEN Raise("NotFittedError")
    ELSE Ok([i \in 1..Len(arr) |->
               ((arr[i] - scaler.mean[i]) * scaler.num[i]) \div scaler.den[i]])

\* RandomForestRegressor.predict on one row: input validation (column count,
\* finite in float32), then the fitted trees; the forest is one split on the
\* first column.  The value is predict(...)[0].
ModelPredict(model, x) ==
    IF model.n_features_in # Len(x)
    THEN Raise("ValueError: X has a different number of features")
    ELSE IF \E i \in 1..Len(x) : Abs(x[i]) > F32Max
    THEN Raise("ValueError: Input contains value too large for float32")
    ELSE Ok(IF x[1] <= model.threshold THEN model.left ELSE model.right)

FittedScaler ==
    [fitted |-> TRUE, mean |-> <<100, 4, 20, 5, 0>>,
     num |-> <<1, 1, 1, 1, 1>>, den |-> <<30, 2, 20, 3, 1>>]

\* A scaler whose scale_ for surface is degenerate (close to zero): every
\* surface other than the mean is scaled beyond the float32 range.
DegenerateScaler ==
    [fitted |-> TRUE, mean |-> <<20, 4, 20, 5, 0>>,
     num |-> <<F32Max, 1, 1, 1, 1>>, den |-> <<1, 2, 20, 3, 1>>]

UnfittedScaler ==
    [fitted |-> FALSE, mean |-> <<0, 0, 0, 0, 0>>,
     num |-> <<1, 1, 1, 1, 1>>, den |-> <<1, 1, 1, 1, 1>>]

Prices == (0 - MaxNegPrice)..MaxPrice
Rmses == 0..MaxRmse

Forest(l, r) == [n_features_in |-> N_FEATURES, threshold |-> 0, left |-> l, right |-> r]
\* The fitted forests: any price on the left leaf, the highest on the right.
Forests == {Forest(l, MaxPrice) : l \in Prices}
\* A regressor fitted on four columns instead of five.
MisfitForest == [n_features_in |-> N_FEATURES - 1, threshold |-> 0, left |-> 1, right |-> 2]

\* mae <= rmse; mse is rmse squared (train_model.py:85-88).
Metrics(rmse) == [r2_score |-> 1, mae |-> rmse \div 2, rmse |-> rmse, mse |-> rmse * rmse]

\* The dict of train_model.py:106-114.
Artifact(scaler, model, rmse) ==
    [model |-> Some(model),
     scaler |-> Some(scaler),
     features |-> Some(FieldNames),
     metrics |-> Some(Metrics(rmse)),
     feature_importance |-> Some(<<"surface", "location_score", "age", "rooms", "garage">>),
     training_date |-> Some("2024-01-01"),
     training_samples |-> Some(1600)]

TrainedArtifacts ==
    {Artifact(FittedScaler, m, r) : m \in Forests, r \in Rmses}

DefaultArtifact == Artifact(FittedScaler, Forest(1, MaxPrice), 1)

\* Objects that deserialize but cannot serve every request.
DefectiveArtifacts ==
    { Artifact(DegenerateScaler, Forest(1, MaxPrice), 1),
      Artifact(UnfittedScaler, Forest(1, MaxPrice), 1),
      Artifact(FittedScaler, MisfitForest, 1),
      [DefaultArtifact EXCEPT !.scaler = None],
      [DefaultArtifact EXCEPT !.model = None],
      [DefaultArtifact EXCEPT !.metrics = None],
      [DefaultArtifact EXCEPT !.training_date = None] }

Artifacts == TrainedArtifacts \cup DefectiveArtifacts

\* The file: absent, present but not deserializable (content <<>>), or
\* present holding an object.
Files ==
    {[exists |-> FALSE, content |-> None], [exists |-> TRUE, content |-> None]}
    \cup {[exists |-> TRUE, content |-> Some(a)] : a \in Artifacts}

----------------------------------------------------------------------------
(* One prediction: the try-block of predict_price *)

GarageNumeric(features) == IF features.garage THEN 1 ELSE 0

FeatureArray(features) ==
    <<features.surface, features.rooms, features.age, features.location_score,
      GarageNumeric(features)>>

Max0(x) == IF x > 0 THEN x ELSE 0

\* The band read from the mean absolute error instead.
HalfWidth_Mae(mi) == Get(mi.metrics).mae

\* rmse = model_info["metrics"]["rmse"], lines 142 and 192
HalfWidth(mi) == Get(mi.metrics).rmse

\* The band without its floor at zero.
ConfidenceInterval_NoFloor(predicted_price, rmse) ==
    [lower |-> predicted_price - rmse, upper |-> predicted_price + rmse]

ConfidenceInterval(predicted_price, rmse) ==
    [lower |-> Max0(predicted_price - rmse), upper |-> predicted_price + rmse]

PredictionResponse(predicted_price, interval, now) ==
    [predicted_price |-> predicted_price,
     confidence_interval |-> interval,
     model_version |-> "1.0.0",
     prediction_timestamp |-> now]

\* The try-block of predict_price, lines 124-156, on the loaded object mi.
\* The result carries, besides the value or the exception, how many times
\* scaler.transform and model.predict were entered.
PredictOne(mi, features, now) ==
    IF IsNone(mi.scaler)
    THEN [out |-> Raise("KeyError: 'scaler'"), transforms |-> 0, predicts |-> 0]
    ELSE LET scaled == ScalerTransform(Get(mi.scaler), FeatureArray(features)) IN
    IF ~scaled.ok
    THEN [out |-> scaled, transforms |-> 1, predicts |-> 0]
    ELSE IF IsNone(mi.model)
    THEN [out |-> Raise("KeyError: 'model'"), transforms |-> 1, predicts |-> 0]
    ELSE LET predicted == ModelPredict(Get(mi.model), scaled.val) IN
    IF ~predicted.ok
    THEN [out |-> predicted, transforms |-> 1, predicts |-> 1]
    ELSE IF IsNone(mi.metrics)
    THEN [out |-> Raise("KeyError: 'metrics'"), transforms |-> 1, predicts |-> 1]
    ELSE [out |-> Ok(PredictionResponse(
                       predicted.val,
                       ConfidenceInterval(predicted.val, HalfWidth(mi)),
                       now)),
          transforms |-> 1, predicts |-> 1]

----------------------------------------------------------------------------
(* One element of a batch: the loop body of predict_batch, lines 175-206 *)

BatchItem(mi, features, now) ==
    IF IsNone(mi.scaler)
    THEN [out |-> Raise("KeyError: 'scaler'"), transforms |-> 0, predicts |-> 0]
    ELSE LET scaled == ScalerTransform(Get(mi.scaler), FeatureArray(features)) IN
    IF ~scaled.ok
    THEN [out |-> scaled, transforms |-> 1, predicts |-> 0]
    ELSE IF IsNone(mi.model)
    THEN [out |-> Raise("KeyError: 'model'"), transforms |-> 1, predicts |-> 0]
    ELSE LET predicted == ModelPredict(Get(mi.model), scaled.val) IN
    IF ~predicted.ok
    THEN [out |-> predicted, transforms |-> 1, predicts |-> 1]
    ELSE IF IsNone(mi.metrics)
    THEN [out |-> Raise("KeyError: 'metrics'"), transforms |-> 1, predicts |-> 1]
    ELSE LET rmse == HalfWidth(mi)
             confidence_lower == Max0(predicted.val - rmse)
             confidence_upper == predicted.val + rmse
         IN [out |-> Ok(PredictionResponse(
                          predicted.val,
                          [lower |-> confidence_lower, upper |-> confidence_upper],
                          now)),
             transforms |-> 1, predicts |-> 1]

\* A loop that answers with the predictions made before the first exception.
BatchLoop_Partial(mi, features_list, now) ==
    LET n == Len(features_list)
        results == [j \in 1..n |-> BatchItem(mi, features_list[j], now)] \o <<>>
        failing == {j \in 1..n : ~results[j].out.ok}
        done == IF failing = {} THEN n
                ELSE (CHOOSE j \in failing : \A h \in failing : j <= h) - 1
    IN [out |-> Ok([j \in 1..done |-> results[j].out.val]),
        transforms |-> done, predicts |-> done]

\* The for-loop of predict_batch: results[j] is what the loop body does with
\* element j.  Without an exception every element is appended in order; the
\* first exception (element k) leaves the loop, the elements before it having
\* made one transform and one predict call each.
BatchLoop(mi, features_list, now) ==
    LET n == Len(features_list)
        results == [j \in 1..n |-> BatchItem(mi, features_list[j], now)] \o <<>>
        failing == {j \in 1..n : ~results[j].out.ok}
    IN IF failing = {}
       THEN [out |-> Ok([j \in 1..n |-> results[j].out.val]),
             transforms |-> n, predicts |-> n]
       ELSE LET k == CHOOSE j \in failing : \A h \in failing : j <= h
            IN [out |-> results[k].out,
                transforms |-> (k - 1) + results[k].transforms,
                predicts |-> (k - 1) + results[k].predicts]

----------------------------------------------------------------------------
(* Responses *)

HTTPException(status_code, detail) == [status |-> status_code, body |-> [detail |-> detail]]
Success(body) == [status |-> 200, body |-> body]
\* FastAPI's answer to a body that fails validation.
ValidationError(errors) == [status |-> 422, body |-> [detail |-> errors]]
\* Starlette's answer to an exception no handler caught.
InternalServerError == [status |-> 500, body |-> [detail |-> <<"Internal Server Error", "">>]]

NoCalls == [transforms |-> 0, predicts |-> 0]
NoRequest == [endpoint |-> "", body |-> <<>>]
NoResponse == [status |-> 0, body |-> <<>>]

----------------------------------------------------------------------------
(* load_model and the startup event *)

\* load_model(): the value of model_info afterwards and the exception raised,
\* if any.
load_model(f, mi) ==
    IF ~f.exists
    THEN [model_info |-> mi, raised |-> Some("FileNotFoundError")]
    ELSE IF IsNone(f.content)
    THEN [model_info |-> mi, raised |-> Some("UnpicklingError")]
    ELSE [model_info |-> f.content, raised |-> None]

\* What startup_event logs last: the load error, or the error of formatting
\* model_info['metrics']['r2_score'], or the ready line.
StartupLog(loaded) ==
    IF ~IsNone(loaded.raised)
    THEN <<"Impossible de charger le modele", Get(loaded.raised)>>
    ELSE IF IsNone(Get(loaded.model_info).metrics)
    THEN <<"Impossible de charger le modele", "KeyError: 'metrics'">>
    ELSE <<"Modele pret", "">>

\* A startup that tries the load again while no model is loaded.
startup_event_Retrying ==
    /\ __name__ = "main"
    /\ \/ phase = "imported"
       \/ phase = "serving" /\ IsNone(model_info) /\ loads < 2
    /\ LET loaded == load_model(file, model_info) IN
         /\ model_info' = loaded.model_info
         /\ startup_log' = StartupLog(loaded)
    /\ loads' = loads + 1
    /\ phase' = "serving"
    /\ request' = NoRequest
    /\ response' = NoResponse
    /\ calls' = NoCalls
    /\ UNCHANGED <<file, __name__, memo, clock>>

\* The startup event of the app uvicorn serves, lines 81-91.  It runs once,
\* in the process that imported the module as "main".
startup_event ==
    /\ __name__ = "main"
    /\ phase = "imported"
    /\ LET loaded == load_model(file, model_info) IN
         /\ model_info' = loaded.model_info
         /\ startup_log' = StartupLog(loaded)
    /\ loads' = loads + 1
    /\ phase' = "serving"
    /\ request' = NoRequest
    /\ response' = NoResponse
    /\ calls' = NoCalls
    /\ UNCHANGED <<file, __name__, memo, clock>>

\* What the script prints after its load_model() call, lines 221-225
MainPrint(loaded) ==
    IF IsNone(loaded.raised)
    THEN <<"Modele charge", "">>
    ELSE <<"Erreur chargement modele", Get(loaded.raised)>>

\* The block under if __name__ == "__main__", lines 218-227: load_model(),
\* then uvicorn.run("main:app", reload=True), which keeps this process as the
\* reload supervisor and serves the app, imported again as "main", from
\* another process.
__main__ ==
    /\ __name__ = "__main__"
    /\ phase = "imported"
    /\ LET loaded == load_model(file, model_info) IN
         /\ model_info' = loaded.model_info
         /\ startup_log' = MainPrint(loaded)
    /\ loads' = loads + 1
    /\ phase' = "supervising"
    /\ UNCHANGED <<file, __name__, request, response, calls, memo, clock>>

----------------------------------------------------------------------------
(* The handlers.  Each yields the response, the calls it made into the     *)
(* artifact, and the value it leaves in model_info.                        *)

\* A handler that widens the stored rmse each time it answers.
Handled_Recalibrating(resp, made, mi) ==
    [response |-> resp, calls |-> made,
     model_info |->
        IF resp.status = 200 /\ ~IsNone(mi) /\ ~IsNone(Get(mi).metrics)
              /\ Get(Get(mi).metrics).rmse < MaxRmse
        THEN Some([Get(mi) EXCEPT !.metrics = Some(Metrics(Get(Get(mi).metrics).rmse + 1))])
        ELSE mi]

Handled(resp, made, mi) == [response |-> resp, calls |-> made, model_info |-> mi]

\* A health check that refuses to answer while no model is loaded.
HealthCheck_Strict(mi, now) ==
    IF IsNone(mi)
    THEN Handled(HTTPException(503, "Modele non charge"), NoCalls, mi)
    ELSE Handled(Success([status |-> "healthy", timestamp |-> now, model_loaded |-> TRUE]),
                 NoCalls, mi)

\* GET /health, lines 94-100
HealthCheck(mi, now) ==
    Handled(Success([status |-> "healthy", timestamp |-> now, model_loaded |-> ~IsNone(mi)]),
            NoCalls, mi)

\* GET /model/info, lines 103-115: a missing key is a KeyError nobody catches.
ModelInfoKeys == {"training_date", "training_samples", "features", "metrics", "feature_importance"}

GetModelInfo(mi) ==
    IF IsNone(mi)
    THEN Handled(HTTPException(503, "Modele non charge"), NoCalls, mi)
    ELSE IF \E k \in ModelInfoKeys : IsNone(Get(mi)[k])
    THEN Handled(InternalServerError, NoCalls, mi)
    ELSE Handled(Success([model_version |-> "1.0.0",
                          training_date |-> Get(Get(mi).training_date),
                          training_samples |-> Get(Get(mi).training_samples),
                          features |-> Get(Get(mi).features),
                          metrics |-> Get(Get(mi).metrics),
                          feature_importance |-> Get(Get(mi).feature_importance)]),
                 NoCalls, mi)

\* predict_price without its try/except: the exception reaches the server.
PredictPriceLoaded_Uncaught(mi, features, now) ==
    LET r == PredictOne(Get(mi), features, now)
        made == [transforms |-> r.transforms, predicts |-> r.predicts]
    IN IF r.out.ok
       THEN Handled(Success(r.out.val), made, mi)
       ELSE Handled(InternalServerError, made, mi)

\* The try/except of predict_price, lines 123-160, with a model loaded
PredictPriceLoaded(mi, features, now) ==
    LET r == PredictOne(Get(mi), features, now)
        made == [transforms |-> r.transforms, predicts |-> r.predicts]
    IN IF r.out.ok
       THEN Handled(Success(r.out.val), made, mi)
       ELSE Handled(HTTPException(500, <<"Erreur de prediction", r.out.err>>), made, mi)

\* predict_price without its guard: subscripting None raises inside the try.
PredictPrice_Unguarded(mi, features, now) ==
    IF IsNone(mi)
    THEN Handled(HTTPException(500, <<"Erreur de prediction",
                                      "TypeError: 'NoneType' object is not subscriptable">>),
                 NoCalls, mi)
    ELSE PredictPriceLoaded(mi, features, now)

\* POST /predict, lines 118-160, on a validated HousingFeatures
PredictPrice(mi, features, now) ==
    IF IsNone(mi)
    THEN Handled(HTTPException(503, "Modele non charge"), NoCalls, mi)
    ELSE PredictPriceLoaded(mi, features, now)

\* The size test with >= for >.
BatchTooLarge_OffByOne(features_list) == Len(features_list) >= MaxBatch

\* The size test of predict_batch, line 168
BatchTooLarge(features_list) == Len(features_list) > MaxBatch

\* The try/except of predict_batch, lines 171-215, with a model loaded
PredictBatchLoaded(mi, features_list, now) ==
    LET r == BatchLoop(Get(mi), features_list, now)
        made == [transforms |-> r.transforms, predicts |-> r.predicts]
    IN IF r.out.ok
       THEN Handled(Success([predictions |-> r.out.val]), made, mi)
       ELSE Handled(HTTPException(500, <<"Erreur de prediction batch", r.out.err>>),
                    made, mi)

\* predict_batch with its two guards in the other order.
PredictBatch_SizeFirst(mi, features_list, now) ==
    IF BatchTooLarge(features_list)
    THEN Handled(HTTPException(400, "Maximum 100 predictions par batch"), NoCalls, mi)
    ELSE IF IsNone(mi)
    THEN Handled(HTTPException(503, "Modele non charge"), NoCalls, mi)
    ELSE PredictBatchLoaded(mi, features_list, now)

\* POST /predict/batch, lines 163-215, on a list of validated HousingFeatures
PredictBatch(mi, features_list, now) ==
    IF IsNone(mi)
    THEN Handled(HTTPException(503, "Modele non charge"), NoCalls, mi)
    ELSE IF BatchTooLarge(features_list)
    THEN Handled(HTTPException(400, "Maximum 100 predictions par batch"), NoCalls, mi)
    ELSE PredictBatchLoaded(mi, features_list, now)

\* The routes: FastAPI validates the body against the declared parameter
\* type and calls the handler only with a valid one.
RoutePredict(mi, raw, now) ==
    IF HousingFeaturesErrors(raw) # {}
    THEN Handled(ValidationError(HousingFeaturesErrors(raw)), NoCalls, mi)
    ELSE PredictPrice(mi, HousingFeatures(raw), now)

\* The errors of a list body: for each invalid element, its invalid fields.
BatchErrors(raws) ==
    LET invalid == {i \in 1..Len(raws) : \E f \in Fields : FieldInvalid(raws[i], f)}
    IN [i \in invalid |-> HousingFeaturesErrors(raws[i])]

RoutePredictBatch(mi, raws, now) ==
    LET errors == BatchErrors(raws) IN
    IF DOMAIN errors # {}
    THEN Handled(ValidationError(errors), NoCalls, mi)
    ELSE PredictBatch(mi, [i \in 1..Len(raws) |-> HousingFeatures(raws[i])], now)

----------------------------------------------------------------------------
(* Request bodies *)

RawValues(f) ==
    IF f = "garage"
    THEN {None, Some(TRUE), Some(FALSE)}
    ELSE {None, Some(FieldGe[f] - 1), Some(FieldGe[f]), Some(FieldLe[f]), Some(FieldLe[f] + 1)}

\* The body of test_invalid_data (tests/test_api.py:184-190)
InvalidData ==
    [surface |-> Some(0 - 10), rooms |-> Some(0), age |-> Some(0 - 5),
     location_score |-> Some(15), garage |-> Some(TRUE)]

Raw(surface, rooms, age, location_score, garage) ==
    [surface |-> Some(surface), rooms |-> Some(rooms), age |-> Some(age),
     location_score |-> Some(location_score), garage |-> Some(garage)]

SmallFlat == Raw(20, 1, 0, 1, FALSE)
LargeHouse == Raw(500, 15, 100, 10, TRUE)

\* Bodies of /predict: SmallFlat with one field replaced by any raw value of
\* that field (missing, below, on or above a bound), LargeHouse, InvalidData.
RawVectors ==
    UNION {{[SmallFlat EXCEPT ![FieldNames[i]] = v] : v \in RawValues(FieldNames[i])} :
              i \in 1..5}
    \cup {LargeHouse, InvalidData}

BatchVectors == {SmallFlat, LargeHouse}

RECURSIVE SeqsUpTo(_, _)
SeqsUpTo(S, n) ==
    IF n = 0 THEN {<<>>}
    ELSE LET shorter == SeqsUpTo(S, n - 1)
         IN shorter \cup {Append(q, x) : q \in {t \in shorter : Len(t) = n - 1}, x \in S}

\* n copies of w, with v at position k when k is a position
Fill(n, w, k, v) == [i \in 1..n |-> IF i = k THEN v ELSE w]

\* Lists of valid bodies of every composition up to MaxShortBatch, and the
\* same with one invalid body appended.
ShortBatches ==
    SeqsUpTo(BatchVectors, MaxShortBatch)
    \cup {Append(q, InvalidData) : q \in SeqsUpTo(BatchVectors, 1)}

\* Lists at the size bound: MaxBatch bodies with LargeHouse first or last,
\* MaxBatch bodies the last one invalid, and MaxBatch + 1 valid bodies.
LongBatches ==
    {Fill(MaxBatch, SmallFlat, k, LargeHouse) : k \in {1, MaxBatch}}
    \cup {Fill(MaxBatch, SmallFlat, MaxBatch, InvalidData),
          Fill(MaxBatch + 1, SmallFlat, 1, LargeHouse)}

Batches == ShortBatches \cup LongBatches

\* The vector whose first answer is remembered
ProbeVector == HousingFeatures(SmallFlat)
ProbeAnswer(body) ==
    [predicted_price |-> body.predicted_price,
     confidence_interval |-> body.confidence_interval,
     at |-> body.prediction_timestamp]

----------------------------------------------------------------------------
(* The state machine *)

Init ==
    /\ file \in Files
    /\ model_info = None
    /\ __name__ \in {"__main__", "main"}
    /\ loads = 0
    /\ phase = "imported"
    /\ startup_log = <<"", "">>
    /\ request = NoRequest
    /\ response = NoResponse
    /\ calls = NoCalls
    /\ memo = None
    /\ clock = 0

\* A request reaches the app of the module uvicorn imported.
Serve(endpoint, body, h) ==
    /\ __name__ = "main"
    /\ request' = [endpoint |-> endpoint, body |-> body]
    /\ response' = h.response
    /\ calls' = h.calls
    /\ model_info' = h.model_info
    /\ clock' = IF clock < MaxTime THEN clock + 1 ELSE clock
    /\ UNCHANGED <<file, __name__, loads, phase, startup_log>>

health_check ==
    /\ Serve("/health", <<>>, HealthCheck(model_info, clock))
    /\ UNCHANGED memo

get_model_info ==
    /\ Serve("/model/info", <<>>, GetModelInfo(model_info))
    /\ UNCHANGED memo

predict_price ==
    \E raw \in RawVectors :
        LET h == RoutePredict(model_info, raw, clock) IN
        /\ Serve("/predict", raw, h)
        /\ memo' = IF /\ IsNone(memo)
                      /\ h.response.status = 200
                      /\ HousingFeatures(raw) = ProbeVector
                   THEN Some(ProbeAnswer(h.response.body))
                   ELSE memo

predict_batch ==
    \E raws \in Batches :
        /\ Serve("/predict/batch", raws, RoutePredictBatch(model_info, raws, clock))
        /\ UNCHANGED memo

Next ==
    \/ __main__
    \/ startup_event
    \/ health_check
    \/ get_model_info
    \/ predict_price
    \/ predict_batch

Spec == Init /\ [][Next]_vars

----------------------------------------------------------------------------
(* Properties *)

Loaded == ~IsNone(model_info)
IsPredict == request.endpoint = "/predict"
IsBatch == request.endpoint = "/predict/batch"
ValidRequest == IsPredict /\ HousingFeaturesErrors(request.body) = {}
ValidBatch == IsBatch /\ \A i \in 1..Len(request.body) : HousingFeaturesErrors(request.body[i]) = {}
LoadFailed == phase = "serving" /\ ~Loaded

\* C1: while no model is loaded (never loaded, or the load failed), /predict
\* on a valid body, /predict/batch on at most 100 valid bodies and
\* /model/info answer 503 and make no transform or regressor call.
C1_Unavailable ==
    (/\ ~Loaded
     /\ \/ ValidRequest
        \/ ValidBatch /\ Len(request.body) <= 100
        \/ request.endpoint = "/model/info")
    => /\ response.status = 503
       /\ calls.transforms = 0
       /\ calls.predicts = 0

\* A full batch of valid bodies refused with 503 after the load failed.
C1_Witness ==
    /\ LoadFailed
    /\ ValidBatch
    /\ Len(request.body) = 100
    /\ response.status = 503

\* C2: /health always answers 200, and its model_loaded field is true exactly
\* when model_info holds a loaded object; also before the load and after a
\* load that failed.
C2_HealthAlwaysAnswers ==
    request.endpoint = "/health"
    => /\ response.status = 200
       /\ response.body.model_loaded = Loaded

\* /health answered model_loaded = false after the load failed.
C2_Witness ==
    /\ LoadFailed
    /\ startup_log[1] = "Impossible de charger le modele"
    /\ request.endpoint = "/health"
    /\ response.status = 200
    /\ response.body.model_loaded = FALSE

\* C3: with a model loaded, more than 100 valid bodies are refused with 400
\* before any transform or regressor call and without any prediction in the
\* answer; exactly 100 are not refused with 400.
C3_BatchBound ==
    (Loaded /\ ValidBatch)
    => /\ Len(request.body) > 100
          => /\ response.status = 400
             /\ calls.transforms = 0
             /\ calls.predicts = 0
             /\ "predictions" \notin DOMAIN response.body
       /\ Len(request.body) = 100 => response.status # 400

\* 101 valid bodies refused with 400 by a loaded model.
C3_Witness ==
    /\ Loaded
    /\ ValidBatch
    /\ Len(request.body) = 101
    /\ response.status = 400

\* C4 as stated: more than 100 bodies sent while no model is loaded are
\* refused with 400 (the size is checked before the availability).
C4_SizeCheckedFirst ==
    (~Loaded /\ ValidBatch /\ Len(request.body) > 100) => response.status = 400

\* C4 amended: the availability is checked before the size; more than 100
\* bodies sent while no model is loaded are refused with 503, not 400.
C4_AvailabilityCheckedFirst ==
    (~Loaded /\ ValidBatch /\ Len(request.body) > 100) => response.status = 503

\* 101 valid bodies refused with 503 while no model is loaded.
C4_Witness ==
    /\ ~Loaded
    /\ ValidBatch
    /\ Len(request.body) = 101
    /\ response.status = 503

\* The interval and price of a PredictionResponse
Lower(b) == b.confidence_interval.lower
Upper(b) == b.confidence_interval.upper
Price(b) == b.predicted_price

\* The rmse of the loaded artifact
LoadedRmse == Get(Get(model_info).metrics).rmse

\* What the regressor returns for features: the loaded scaler's transform,
\* then the loaded model's predict.
PointEstimate(features) ==
    ModelPredict(Get(Get(model_info).model),
                 ScalerTransform(Get(Get(model_info).scaler), FeatureArray(features)).val).val

\* C5 as stated: every successful /predict returns
\* lower <= predicted_price <= upper and lower >= 0.
C5_IntervalContainsPrice ==
    (IsPredict /\ response.status = 200)
    => /\ Lower(response.body) <= Price(response.body)
       /\ Price(response.body) <= Upper(response.body)
       /\ Lower(response.body) >= 0

\* C5 amended: every successful /predict returns predicted_price <= upper and
\* lower >= 0, and lower <= predicted_price whenever the point estimate is
\* not negative.
C5_IntervalFloored ==
    (IsPredict /\ response.status = 200)
    => /\ Price(response.body) <= Upper(response.body)
       /\ Lower(response.body) >= 0
       /\ Price(response.body) >= 0 => Lower(response.body) <= Price(response.body)

\* A successful /predict whose positive price is smaller than the rmse: the
\* lower end is floored at zero.
C5_Witness ==
    /\ IsPredict
    /\ response.status = 200
    /\ Price(response.body) > 0
    /\ Price(response.body) < LoadedRmse
    /\ Lower(response.body) = 0

\* The band of one PredictionResponse b for point estimate p
Band(b, p, rmse) ==
    /\ Price(b) = p
    /\ Lower(b) = IF p - rmse >= 0 THEN p - rmse ELSE 0
    /\ Upper(b) = p + rmse
    /\ p - rmse >= 0 => Upper(b) - p = p - Lower(b)
    /\ p - rmse < 0 => /\ Lower(b) = 0
                       /\ Upper(b) - p = rmse
                       /\ Upper(b) - Lower(b) # 2 * rmse

\* C6: every successful prediction, single or element of a batch, has
\* predicted_price = p, lower = max(0, p - rmse), upper = p + rmse for the
\* regressor's output p and the artifact's rmse; the band is symmetric when
\* p - rmse >= 0 and otherwise lower = 0, upper - p = rmse and
\* upper - lower differs from 2 * rmse.
C6_BandFromRmse ==
    /\ (IsPredict /\ response.status = 200)
       => Band(response.body, PointEstimate(HousingFeatures(request.body)), LoadedRmse)
    /\ (IsBatch /\ response.status = 200)
       => \A i \in 1..Len(response.body.predictions) :
            Band(response.body.predictions[i],
                 PointEstimate(HousingFeatures(request.body[i])), LoadedRmse)

\* A successful batch with an element whose lower end is floored at zero and
\* an element whose band is symmetric.
C6_Witness ==
    /\ IsBatch
    /\ response.status = 200
    /\ \E i \in 1..Len(response.body.predictions) :
         /\ Price(response.body.predictions[i]) - LoadedRmse < 0
         /\ Lower(response.body.predictions[i]) = 0
    /\ \E i \in 1..Len(response.body.predictions) :
         /\ Price(response.body.predictions[i]) - LoadedRmse > 0
         /\ Lower(response.body.predictions[i]) > 0

\* C7: with a model loaded, /predict/batch on n <= 100 valid bodies either
\* answers 200 with exactly n predictions, the i-th having the price and the
\* interval /predict gives for the i-th body, or some element's evaluation
\* raises and the answer is 500 with no predictions at all.
C7_BatchAllOrNothing ==
    (Loaded /\ ValidBatch /\ Len(request.body) <= 100)
    => LET n == Len(request.body)
           single == [i \in 1..n |->
                        PredictOne(Get(model_info), HousingFeatures(request.body[i]), clock).out]
                     \o <<>>
       IN \/ /\ \A i \in 1..n : single[i].ok
             /\ response.status = 200
             /\ Len(response.body.predictions) = n
             /\ \A i \in 1..n :
                  /\ Price(response.body.predictions[i]) = Price(single[i].val)
                  /\ response.body.predictions[i].confidence_interval
                       = single[i].val.confidence_interval
          \/ /\ \E i \in 1..n : ~single[i].ok
             /\ response.status = 500
             /\ response.body.detail[1] = "Erreur de prediction batch"
             /\ "predictions" \notin DOMAIN response.body

\* A batch of 100 whose last element raises after 99 were evaluated: 500.
C7_Witness ==
    /\ Loaded
    /\ ValidBatch
    /\ Len(request.body) = 100
    /\ response.status = 500
    /\ calls.transforms = 100
    /\ calls.predicts = 100

\* A body with every field present and inside its range
InRange(raw) ==
    /\ \A f \in {"surface", "rooms", "age", "location_score", "garage"} : raw[f] # <<>>
    /\ raw.surface[1] >= 20 /\ raw.surface[1] <= 500
    /\ raw.rooms[1] >= 1 /\ raw.rooms[1] <= 15
    /\ raw.age[1] >= 0 /\ raw.age[1] <= 100
    /\ raw.location_score[1] >= 1 /\ raw.location_score[1] <= 10

\* C8: in any serving state, /predict on a body with a missing field or a
\* field outside its range answers 422, never 500 or a prediction, and makes
\* no transform or regressor call; a body with every value inside its range,
\* the bounds included, is not answered 422.
C8_InvalidFeatures ==
    IsPredict
    => /\ ~InRange(request.body)
          => /\ response.status = 422
             /\ calls.transforms = 0
             /\ calls.predicts = 0
       /\ InRange(request.body) => response.status # 422

\* surface = 501 refused with 422 by a loaded model.
C8_Witness ==
    /\ Loaded
    /\ IsPredict
    /\ request.body.surface = <<501>>
    /\ response.status = 422

\* The message of the exception the loaded scaler's transform or the loaded
\* model's predict raises on features, if one does
TransformOrRegressorError(features) ==
    IF IsNone(Get(model_info).scaler) THEN None
    ELSE LET t == ScalerTransform(Get(Get(model_info).scaler), FeatureArray(features)) IN
    IF ~t.ok THEN Some(t.err)
    ELSE IF IsNone(Get(model_info).model) THEN None
    ELSE LET q == ModelPredict(Get(Get(model_info).model), t.val) IN
    IF ~q.ok THEN Some(q.err) ELSE None

\* C9: an exception of the transform or the regressor during /predict is
\* answered 500 with that exception's message, not as an uncaught server
\* error; model_info still holds the object that was loaded from the file,
\* and the next request can be handled.
C9_PredictionFailed ==
    (Loaded /\ ValidRequest
       /\ ~IsNone(TransformOrRegressorError(HousingFeatures(request.body))))
    => /\ response.status = 500
       /\ response.body.detail
            = <<"Erreur de prediction",
                Get(TransformOrRegressorError(HousingFeatures(request.body)))>>
       /\ model_info = file.content
       /\ phase = "serving"
       /\ ENABLED predict_price
       /\ ENABLED health_check

\* The regressor rejected a scaled input: 500 with its ValueError.
C9_Witness ==
    /\ Loaded
    /\ ValidRequest
    /\ calls.predicts = 1
    /\ response.status = 500
    /\ response.body.detail[2] = "ValueError: Input contains value too large for float32"

\* C10: a successful /predict for a feature vector returns the
\* predicted_price and confidence_interval first returned for that vector,
\* whatever requests were handled in between.
C10_Idempotent ==
    (/\ ~IsNone(memo)
     /\ ValidRequest
     /\ response.status = 200
     /\ HousingFeatures(request.body) = ProbeVector)
    => /\ Price(response.body) = Get(memo).predicted_price
       /\ response.body.confidence_interval = Get(memo).confidence_interval

\* A later /predict for the vector answered first at an earlier time.
C10_Witness ==
    /\ ~IsNone(memo)
    /\ ValidRequest
    /\ response.status = 200
    /\ HousingFeatures(request.body) = ProbeVector
    /\ Get(memo).at < response.body.prediction_timestamp

\* unloaded: no load attempted; loaded: model_info holds an object;
\* load-failed: a load was attempted and model_info is still None
ServingState ==
    IF ~IsNone(model_info) THEN "loaded"
    ELSE IF loads = 0 THEN "unloaded" ELSE "load-failed"

\* C11: in one process load_model() is called at most once, and the serving
\* state changes at most once: with that call, from unloaded to loaded when
\* the file deserializes, to load-failed when it is missing or does not.
\* Once loaded or load-failed, neither the state nor model_info changes.
C11_LoadOnce ==
    [][/\ loads' <= 1
       /\ loads' # loads
          => /\ ServingState = "unloaded"
             /\ ServingState' = IF file.exists /\ ~IsNone(file.content)
                                THEN "loaded" ELSE "load-failed"
       /\ loads' = loads => model_info' = model_info
       /\ ServingState # "unloaded"
          => /\ ServingState' = ServingState
             /\ model_info' = model_info
             /\ loads' = loads]_vars

\* A request handled after the one load failed on a file that does not
\* deserialize: still no model, and no second load.
C11_Witness ==
    /\ loads = 1
    /\ ServingState = "load-failed"
    /\ file.exists
    /\ IsPredict
    /\ response.status = 503

\* The object holds the transform, the regressor and the metrics
Complete(a) == ~IsNone(a.scaler) /\ ~IsNone(a.model) /\ ~IsNone(a.metrics)

\* C12: every request observes either no model or a complete artifact
\* (transform, regressor and metrics all present); after a load that was
\* reported as failed, requests observe no model.
C12_AllOrNothing ==
    request # NoRequest
    => /\ IsNone(model_info) \/ Complete(Get(model_info))
       /\ startup_log[1] = "Impossible de charger le modele" => IsNone(model_info)

====
